---- MODULE Spec2Model ----
(***************************************************************************)
(* knockout_values(df, missing_pct, na_value, exclude) of                  *)
(* knockout_values.py, one call from entry to return or exception, and the *)
(* caller's later writes into the two returned tables.                     *)
(*                                                                         *)
(* Python values are tagged records; rates are exact fractions num/RateDen *)
(* (for the denominators used every product n_rows*pct is computed by the  *)
(* floating-point unit without crossing a rounding boundary).  DataFrames  *)
(* live in a heap and are named by references, so that copying and         *)
(* aliasing differ.  Tables carry the default RangeIndex; the chained      *)
(* assignment of line 63 writes through to `mask`, as it does in the       *)
(* pandas releases the module was written for.                             *)
(***************************************************************************)
EXTENDS Integers, Sequences, FiniteSets, TLC

VARIABLES
    pc,            \* position of the call: the line about to be executed
    heap,          \* sequence of DataFrame objects; a reference is an index
    df,            \* argument: reference of the caller's table
    missing_pct,   \* argument, as passed
    na_value,      \* argument, as passed
    exclude,       \* argument, as passed
    types,         \* line 31: column name -> dtype name
    exclude_set,   \* line 32: `exclude` after normalisation to a set
    _na_value,     \* lines 34-39: column name -> sentinel
    _missing_pct,  \* lines 41-52: column name -> rate or None
    masked_df,     \* line 54: reference of the working copy (0 before)
    mask,          \* line 55: reference of the boolean mask (0 before)
    n_rows,        \* line 56
    col_i,         \* lines 57-64: position of the loop in mask.columns
    rng,           \* number of random indices np.random has produced
    error,         \* name of the exception that left the call, "" if none
    ret            \* line 65: <<masked_df, mask>>, <<>> before the return

vars == <<pc, heap, df, missing_pct, na_value, exclude, types, exclude_set,
          _na_value, _missing_pct, masked_df, mask, n_rows, col_i, rng,
          error, ret>>

-----------------------------------------------------------------------------
(* Bounds of the model *)

MaxRows == 5
RateDen == 4

\* column names a table may carry, in column order (a table has a prefix)
Names == <<"a", "b">>

-----------------------------------------------------------------------------
(* Python values *)

PyNone     == [kind |-> "None", num |-> 0, s |-> <<>>, d |-> <<>>]
PyNum(k)   == [kind |-> "num",  num |-> k, s |-> <<>>, d |-> <<>>]
PyStr(t)   == [kind |-> "str",  num |-> 0, s |-> t,    d |-> <<>>]
PyDict(f)  == [kind |-> "dict", num |-> 0, s |-> <<>>, d |-> f]

\* str.startswith on character sequences
StartsWith(t, p) == Len(t) >= Len(p) /\ SubSeq(t, 1, Len(p)) = p

\* str(x) for the values that reach the lambdas as strings
PyStrOf(x) == IF x.kind = "str" THEN x.s
              ELSE IF x.kind = "None" THEN <<"N", "o", "n", "e">>
              ELSE IF x.kind = "dict" THEN <<"{">>
              ELSE <<"0">>

\* dtype names of the modelled columns
Int64   == <<"i", "n", "t", "6", "4">>
UInt8   == <<"u", "i", "n", "t", "8">>
Float64 == <<"f", "l", "o", "a", "t", "6", "4">>
Object  == <<"o", "b", "j", "e", "c", "t">>
Dtypes  == {Int64, UInt8, Float64, Object}

\* line 24
float_type(x) == StartsWith(x, <<"f", "l", "o", "a", "t">>)
                 \/ StartsWith(x, <<"i", "n", "t">>)
\* line 25
int_type(x) == StartsWith(x, <<"i", "n", "t">>)
\* line 26
float_like(x) == \/ x.kind = "num"
                 \/ StartsWith(PyStrOf(x), <<"f", "l", "o", "a", "t">>)
                 \/ StartsWith(PyStrOf(x), <<"i", "n", "t">>)
\* line 28
default_na(x) == IF int_type(x) THEN "-1"
                 ELSE IF float_type(x) THEN "nan" ELSE "NA"
\* line 29, on a number
is_pct(x) == x.num >= 0 /\ x.num <= RateDen

-----------------------------------------------------------------------------
(* Tables *)

\* value of the input table at column c, row i (rows count from 0)
Cell(c, i) == c \o ToString(i)

Column(c, n) == [i \in 0..(n - 1) |-> Cell(c, i)]

Prefix(len) == SubSeq(Names, 1, len)

Range(q) == {q[i] : i \in DOMAIN q}

\* a DataFrame: ordered column names, their dtypes, the length of its
\* RangeIndex, and the column data
Table(dts, n) ==
    [columns |-> Prefix(Len(dts)),
     dtypes  |-> dts,
     nrows   |-> n,
     data    |-> [c \in Range(Prefix(Len(dts))) |-> Column(c, n)]]

DtypeSeqs == UNION {[1..l -> Dtypes] : l \in 0..Len(Names)}

Tables == {Table(dts, n) : dts \in DtypeSeqs, n \in 0..MaxRows}

-----------------------------------------------------------------------------
(* Arguments of the call *)

Abc == <<"a", "b", "c">>

\* missing_pct as a mapping: column name -> None, a rate, or a string
DictNums == {1, RateDen \div 2, RateDen, RateDen + 1}
DictVals == {PyNone, PyStr(Abc)} \cup {PyNum(k) : k \in DictNums}
DictMaps == UNION {[K -> DictVals] : K \in SUBSET Range(Names)}

MissingInputs ==
    {PyNone, PyStr(Abc), PyStr(<<"i", "n", "t">>)}
      \cup {PyNum(k) : k \in (-1)..(RateDen + 1)}
      \cup {PyDict(f) : f \in DictMaps}

\* na_value: None, or a mapping with at most one key, a column name or one
\* of the type words of the docstring
NaKeys == {"a", "integer", "floating"}
NaMaps == UNION {[K -> {"-999.0"}] : K \in {L \in SUBSET NaKeys : Cardinality(L) <= 1}}
NaInputs == {PyNone} \cup {PyDict(f) : f \in NaMaps}

\* exclude: None, one column name, or a collection of names
ExNone    == [kind |-> "None", s |-> "", l |-> {}]
ExStr(c)  == [kind |-> "str",  s |-> c,  l |-> {}]
ExList(S) == [kind |-> "list", s |-> "", l |-> S]
ExcludeInputs == {ExNone, ExStr("a"), ExList({"b"}), ExList({"a", "b"})}

-----------------------------------------------------------------------------
(* The steps of knockout_values *)

Init ==
    /\ pc = "l30"
    /\ heap \in {<<t>> : t \in Tables}
    /\ df = 1
    /\ missing_pct \in MissingInputs
    /\ na_value \in NaInputs
    /\ exclude \in ExcludeInputs
    /\ types = <<>>
    /\ exclude_set = {}
    /\ _na_value = <<>>
    /\ _missing_pct = <<>>
    /\ masked_df = 0
    /\ mask = 0
    /\ n_rows = 0
    /\ col_i = 0
    /\ rng = 0
    /\ error = ""
    /\ ret = <<>>

\* an exception leaves the call: only pc and error change
Raise(e) ==
    /\ pc' = "raised"
    /\ error' = e
    /\ UNCHANGED <<heap, df, missing_pct, na_value, exclude, types,
                   exclude_set, _na_value, _missing_pct, masked_df, mask,
                   n_rows, col_i, rng, ret>>

\* line 30
CheckMissingPct ==
    /\ pc = "l30"
    /\ IF missing_pct.kind = "None" \/ float_like(missing_pct)
          \/ missing_pct.kind = "dict"
       THEN /\ pc' = "l31"
            /\ UNCHANGED <<heap, df, missing_pct, na_value, exclude, types,
                           exclude_set, _na_value, _missing_pct, masked_df,
                           mask, n_rows, col_i, rng, error, ret>>
       ELSE Raise("AssertionError")

\* line 31: df.dtypes.to_dict()
DtypesToDict(t) ==
    [c \in Range(t.columns) |->
        t.dtypes[CHOOSE i \in DOMAIN t.columns : t.columns[i] = c]]

\* line 32 with the single-name form lost
ExcludeSetListOnly(ex) == IF ex.kind = "list" THEN ex.l ELSE {}

\* line 32
ExcludeSet(ex) ==
    IF ex.kind = "None" THEN {}
    ELSE IF ex.kind = "str" THEN {ex.s} ELSE ex.l

\* lines 34-38
ResolveNA(ty, na) ==
    [c \in DOMAIN ty |->
        IF na.kind = "dict" /\ c \in DOMAIN na.d THEN na.d[c]
        ELSE default_na(ty[c])]

\* lines 31-39
SetNAValues ==
    /\ pc = "l31"
    /\ types' = DtypesToDict(heap[df])
    /\ exclude_set' = ExcludeSet(exclude)
    /\ _na_value' = ResolveNA(types', na_value)
    /\ pc' = "l40"
    /\ UNCHANGED <<heap, df, missing_pct, na_value, exclude, _missing_pct,
                   masked_df, mask, n_rows, col_i, rng, error, ret>>

\* line 41 with the uniform default of line 45
DefaultPctAll(cols) == [c \in cols |-> PyNum(RateDen)]

\* line 41
DefaultPct(cols) == [c \in cols |-> PyNone]

\* lines 49-51 on one mapping entry: the exception it raises, "" if none
EntryError(v) ==
    IF ~float_like(v) THEN ""
    ELSE IF v.kind = "str" THEN "ValueError"
    ELSE IF ~is_pct(v) THEN "AssertionError" ELSE ""

\* lines 46-48: the mapping's entries laid over the defaults
MergePct(def, d) ==
    [c \in DOMAIN def \cup DOMAIN d |-> IF c \in DOMAIN d THEN d[c] ELSE def[c]]

\* lines 40-52
SetMissingPct ==
    /\ pc = "l40"
    /\ LET cols == Range(heap[df].columns)
           ok(m) == /\ _missing_pct' = m
                    /\ pc' = "l53"
                    /\ UNCHANGED <<heap, df, missing_pct, na_value, exclude,
                                   types, exclude_set, _na_value, masked_df,
                                   mask, n_rows, col_i, rng, error, ret>>
       IN  IF float_like(missing_pct)
           THEN IF missing_pct.kind = "str" THEN Raise("TypeError")
                ELSE IF ~is_pct(missing_pct) THEN Raise("AssertionError")
                ELSE ok([c \in cols |-> missing_pct])
           ELSE IF missing_pct.kind = "dict"
           THEN LET bad == {c \in DOMAIN missing_pct.d :
                               EntryError(missing_pct.d[c]) # ""}
                IN  IF bad = {}
                    THEN ok(MergePct(DefaultPct(cols), missing_pct.d))
                    ELSE \E c \in bad : Raise(EntryError(missing_pct.d[c]))
           ELSE ok(DefaultPct(cols))

\* line 54 without .copy(): the working table is the caller's object
DfAlias(h, r) == [heap |-> h, ref |-> r]

\* line 54: df.copy(), a new object with the same contents
DfCopy(h, r) == [heap |-> Append(h, h[r]), ref |-> Len(h) + 1]

BoolName == <<"b", "o", "o", "l">>

\* line 55: an all-False table with the columns of t and a RangeIndex
ZerosLike(t) ==
    [columns |-> t.columns,
     dtypes  |-> [i \in DOMAIN t.columns |-> BoolName],
     nrows   |-> t.nrows,
     data    |-> [c \in Range(t.columns) |-> [i \in 0..(t.nrows - 1) |-> FALSE]]]

\* lines 53-56
CopyAndMask ==
    /\ pc = "l53"
    /\ LET cp == DfCopy(heap, df)
       IN  /\ masked_df' = cp.ref
           /\ heap' = Append(cp.heap, ZerosLike(heap[df]))
           /\ mask' = Len(cp.heap) + 1
           /\ n_rows' = cp.heap[cp.ref].nrows
    /\ col_i' = 1
    /\ pc' = "l57"
    /\ UNCHANGED <<df, missing_pct, na_value, exclude, types, exclude_set,
                   _na_value, _missing_pct, rng, error, ret>>

\* rounding of a/b, b > 0, with halves going up
RoundHalfUp(a, b) == (2 * a + b) \div (2 * b)

\* np.round of a/b, b > 0: to the nearest integer, halves to the even one
RoundHalfEven(a, b) ==
    LET q == a \div b
        r == a % b
    IN  IF 2 * r < b THEN q
        ELSE IF 2 * r > b THEN q + 1
        ELSE IF q % 2 = 0 THEN q ELSE q + 1

\* line 62 without np.round: int(n_rows*pct)
KnockCountTrunc(n, pct) == (n * pct.num) \div RateDen

\* line 62: int(np.round(n_rows*pct)) for a rate pct
KnockCount(n, pct) == RoundHalfEven(n * pct.num, RateDen)

\* line 62: np.random.choice(n, k, replace=False), the index sets it may give
Choice(n, k) == {S \in SUBSET (0..(n - 1)) : Cardinality(S) = k}

\* lines 63-64 on column c with the drawn indices idx
Knock(h, c, idx) ==
    LET newmask == [i \in DOMAIN h[mask].data[c] |->
                       IF i \in idx THEN TRUE ELSE h[mask].data[c][i]]
        old == h[masked_df].data[c]
    IN  [h EXCEPT ![mask].data[c] = newmask,
                  ![masked_df].data[c] =
                      [i \in DOMAIN old |->
                          IF newmask[i] THEN _na_value[c] ELSE old[i]]]

\* lines 57-64, one iteration of the loop
LoopColumn ==
    /\ pc = "l57"
    /\ col_i <= Len(heap[mask].columns)
    /\ LET c == heap[mask].columns[col_i]
           next == /\ col_i' = col_i + 1
                   /\ pc' = "l57"
                   /\ UNCHANGED <<df, missing_pct, na_value, exclude, types,
                                  exclude_set, _na_value, _missing_pct,
                                  masked_df, mask, n_rows, error, ret>>
       IN  IF c \in exclude_set \/ _missing_pct[c].kind = "None"
           THEN next /\ UNCHANGED <<heap, rng>>
           ELSE IF _missing_pct[c].kind # "num"
           THEN Raise("TypeError")
           ELSE \E idx \in Choice(n_rows, KnockCount(n_rows, _missing_pct[c])) :
                   /\ heap' = Knock(heap, c, idx)
                   /\ rng' = rng + Cardinality(idx)
                   /\ next

\* line 65
Return ==
    /\ pc = "l57"
    /\ col_i > Len(heap[mask].columns)
    /\ ret' = <<masked_df, mask>>
    /\ pc' = "done"
    /\ UNCHANGED <<heap, df, missing_pct, na_value, exclude, types,
                   exclude_set, _na_value, _missing_pct, masked_df, mask,
                   n_rows, col_i, rng, error>>

\* the caller, after the return, overwrites one cell of a returned table
MutateOutput ==
    /\ pc = "done"
    /\ \E k \in 1..2 :
         \E c \in Range(heap[ret[k]].columns) :
           \E i \in DOMAIN heap[ret[k]].data[c] :
              heap' = [heap EXCEPT ![ret[k]].data[c][i] =
                          IF k = 1 THEN "changed" ELSE ~@]
    /\ pc' = "mutated"
    /\ UNCHANGED <<df, missing_pct, na_value, exclude, types, exclude_set,
                   _na_value, _missing_pct, masked_df, mask, n_rows, col_i,
                   rng, error, ret>>

Next ==
    \/ CheckMissingPct
    \/ SetNAValues
    \/ SetMissingPct
    \/ CopyAndMask
    \/ LoopColumn
    \/ Return
    \/ MutateOutput

Spec == Init /\ [][Next]_vars

-----------------------------------------------------------------------------
(* What the claims speak of, read off the arguments and the results *)

Abs(x) == IF x < 0 THEN -x ELSE x

Returned == pc = "done"
Ended == pc \in {"done", "raised", "mutated"}

InCols == Range(heap[df].columns)
InRows == 0..(heap[df].nrows - 1)

OutCol(c)  == heap[ret[1]].data[c]
MaskCol(c) == heap[ret[2]].data[c]
TrueCount(c) == Cardinality({i \in DOMAIN MaskCol(c) : MaskCol(c)[i]})

Excluded(c) == \/ exclude.kind = "str" /\ exclude.s = c
               \/ exclude.kind = "list" /\ c \in exclude.l

\* the effective missing rate of column c: a rate, or None when absent
EffectiveRate(c) ==
    IF Excluded(c) THEN PyNone
    ELSE IF missing_pct.kind = "num" THEN missing_pct
    ELSE IF missing_pct.kind = "dict" /\ c \in DOMAIN missing_pct.d
         THEN missing_pct.d[c]
    ELSE PyNone

ValidRate(v) == v.kind = "num" /\ v.num >= 0 /\ v.num <= RateDen

Untouched(c) == /\ DOMAIN MaskCol(c) = InRows
                /\ DOMAIN OutCol(c) = InRows
                /\ \A i \in InRows : ~MaskCol(c)[i] /\ OutCol(c)[i] = Cell(c, i)

DtypeOf(c) == heap[df].dtypes[CHOOSE i \in DOMAIN heap[df].columns :
                                  heap[df].columns[i] = c]

\* the three type categories and their default sentinels
Category(dt) == IF dt \in {Int64, UInt8} THEN "integer"
                ELSE IF dt = Float64 THEN "floating" ELSE "string"
CategoryDefault(cat) == IF cat = "integer" THEN "-1"
                        ELSE IF cat = "floating" THEN "nan" ELSE "NA"
CategorySentinel(c) ==
    LET cat == Category(DtypeOf(c))
    IN  IF na_value.kind = "dict" /\ cat \in DOMAIN na_value.d
        THEN na_value.d[cat] ELSE CategoryDefault(cat)

\* na_value as the docstring describes it: absent, or keyed by type words
Categories == {"integer", "floating", "string"}
KeyedByCategory == na_value.kind = "dict" => DOMAIN na_value.d \subseteq Categories

InvalidEntry(v) == ~(v.kind = "None" \/ ValidRate(v))
InvalidMissingSpec ==
    \/ missing_pct.kind = "str"
    \/ missing_pct.kind = "num" /\ ~ValidRate(missing_pct)
    \/ /\ missing_pct.kind = "dict"
       /\ \E c \in DOMAIN missing_pct.d : InvalidEntry(missing_pct.d[c])

-----------------------------------------------------------------------------
(* The claims *)

\* C1: in the returned mask a column with effective rate p in [0,1] has a
\* number k of True cells that is an integer nearest to n*p, at row
\* positions of [0, n); an excluded column or one without a rate has none.
C1_MaskCount ==
    Returned =>
      \A c \in InCols :
        LET r == EffectiveRate(c)
            k == TrueCount(c)
        IN  /\ DOMAIN MaskCol(c) = InRows
            /\ IF ValidRate(r)
               THEN 2 * Abs(k * RateDen - heap[df].nrows * r.num) <= RateDen
               ELSE k = 0

\* C1 witness: a call returned with one column partly knocked out at a rate
\* and another column left without a rate
C1_Witness ==
    /\ Returned
    /\ \E c \in InCols : /\ ValidRate(EffectiveRate(c))
                         /\ TrueCount(c) = 3
                         /\ heap[df].nrows = 4
    /\ \E c \in InCols : EffectiveRate(c).kind = "None" /\ TrueCount(c) = 0

\* C2: a column named in exclude (a single name or a collection) has an
\* all-False mask and its input values in the returned table, whatever
\* missing_pct is.
C2_ExcludedUntouched ==
    Returned => \A c \in InCols : Excluded(c) => Untouched(c)

\* C2 witness: a call returned where a mapping gives rate 1.0 to a column
\* excluded by its single name, and another column was knocked out
C2_Witness ==
    /\ Returned
    /\ exclude.kind = "str" /\ exclude.s \in InCols
    /\ missing_pct.kind = "dict" /\ exclude.s \in DOMAIN missing_pct.d
    /\ missing_pct.d[exclude.s] = PyNum(RateDen)
    /\ heap[df].nrows > 0
    /\ \E c \in InCols : TrueCount(c) > 0

\* C3: in the outputs of a successful call (na_value absent or keyed by
\* type category) every cell whose mask is True
\* holds the sentinel of the column's type category (default or override)
\* and every cell whose mask is False holds the input value.
C3_SentinelCorrect ==
    (Returned /\ KeyedByCategory) =>
      \A c \in InCols : \A i \in InRows :
        IF MaskCol(c)[i] THEN OutCol(c)[i] = CategorySentinel(c)
        ELSE OutCol(c)[i] = Cell(c, i)

\* C4: given a mapping na_value keyed by type category, a column whose category the mapping
\* supplies has the supplied value in every knocked-out cell, and a column
\* whose category is not supplied has the default of its category.
C4_OverridePerCategory ==
    (Returned /\ na_value.kind = "dict" /\ KeyedByCategory) =>
      \A c \in InCols :
        LET cat == Category(DtypeOf(c))
        IN  \A i \in InRows :
              MaskCol(c)[i] =>
                OutCol(c)[i] = (IF cat \in DOMAIN na_value.d
                                THEN na_value.d[cat]
                                ELSE default_na(DtypeOf(c)))

\* C5: when the call fails on an invalid missing_pct, no random index has
\* been drawn, no column of a working table has been changed, and nothing
\* has been returned.
C5_FailBeforeSampling ==
    (pc = "raised" /\ InvalidMissingSpec) =>
      /\ rng = 0
      /\ ret = <<>>
      /\ masked_df # 0 =>
           \A c \in InCols : \A i \in InRows :
              /\ heap[masked_df].data[c][i] = Cell(c, i)
              /\ ~heap[mask].data[c][i]

\* C6: a call whose mapping missing_pct holds an entry that is neither None
\* nor a number in [0,1] ends with the assertion error, whatever the key.
C6_MappingEntriesChecked ==
    (/\ Ended
     /\ missing_pct.kind = "dict"
     /\ \E c \in DOMAIN missing_pct.d : InvalidEntry(missing_pct.d[c]))
      => error = "AssertionError"

\* C7: with a mapping missing_pct, a column the mapping does not name, or
\* names with None, has an all-False mask and its input values.
C7_UnnamedUntouched ==
    (Returned /\ missing_pct.kind = "dict") =>
      \A c \in InCols :
        (c \notin DOMAIN missing_pct.d \/ missing_pct.d[c].kind = "None")
          => Untouched(c)

\* C7 witness: a call returned where the mapping names one column, which
\* was knocked out, and leaves out another column that is not excluded
C7_Witness ==
    /\ Returned
    /\ missing_pct.kind = "dict"
    /\ \E c \in InCols : c \in DOMAIN missing_pct.d /\ TrueCount(c) > 0
    /\ \E c \in InCols : /\ c \notin DOMAIN missing_pct.d
                         /\ ~Excluded(c)
                         /\ heap[df].nrows > 0

\* C8: the caller's table holds its input values at every point of the
\* call, after a failure, and after the caller writes into the returned
\* tables, which are objects other than the input and each other.
C8_InputNeverMutated ==
    /\ heap[df].columns = Prefix(Len(heap[df].dtypes))
    /\ \A c \in InCols : heap[df].data[c] = Column(c, heap[df].nrows)
    /\ ret # <<>> => ret[1] # df /\ ret[2] # df /\ ret[1] # ret[2]

\* C8 witness: cells were knocked out and the caller then overwrote a cell
\* of the returned table
C8_Witness ==
    /\ pc = "mutated"
    /\ rng > 0
    /\ \E c \in InCols : \E i \in InRows : OutCol(c)[i] = "changed"

\* C9: without overrides every integer-like column gets the sentinel -1,
\* every floating column NaN, and every other column "NA".
C9_DefaultByCategory ==
    na_value.kind = "None" =>
      \A c \in DOMAIN _na_value :
        _na_value[c] = CategoryDefault(Category(types[c]))

\* C10: the number k of knocked-out rows of a column with rate p satisfies
\* 0 <= k <= n, is an integer nearest to n*p, and is the even neighbour
\* whenever n*p lies halfway between two integers.
C10_HalfToEven ==
    Returned =>
      \A c \in InCols :
        LET r == EffectiveRate(c)
            k == TrueCount(c)
            e == Abs(k * RateDen - heap[df].nrows * r.num)
        IN  ValidRate(r) =>
              /\ 0 <= k /\ k <= heap[df].nrows
              /\ 2 * e <= RateDen
              /\ 2 * e = RateDen => k % 2 = 0

\* C10 witness: five rows at rate 1/2 gave two knocked-out rows
C10_Witness ==
    /\ Returned
    /\ heap[df].nrows = 5
    /\ \E c \in InCols : /\ ValidRate(EffectiveRate(c))
                         /\ 2 * EffectiveRate(c).num = RateDen
                         /\ TrueCount(c) = 2

====
